---------------------------- MODULE Spec2Model ----------------------------
(***************************************************************************)
(* A model of export.py: the paginated fetch loop of main, the decoding of *)
(* one API record by get_bookmarks, and the rendering of one Bookmark by   *)
(* Bookmark.to_raindrop_io_csv_row.                                        *)
(*                                                                         *)
(* A Python str is a sequence of one-character strings, so that split,     *)
(* join and replace are computed character by character.  A Python dict is *)
(* a sequence of [key, value] records in insertion order.                  *)
(***************************************************************************)
EXTENDS Integers, Sequences, FiniteSets, TLC

VARIABLES
    source,        \* the server's collection of raw bookmark objects
    chunk_size,    \* the page size main passes as count (CHUNK_SIZE)
    start,         \* main's start offset
    bookmarks,     \* main's accumulator
    requests,      \* the requests.get calls issued so far, in order
    error,         \* the exception that ended the run, or NoError
    file,          \* the export file
    pc,            \* where main is: "loop", "save", "done", "failed"
    bookmark_obj,  \* the raw object handed to the decoder (record runs)
    bookmark,      \* the Bookmark decoded or constructed (record runs)
    row,           \* the row rendered from it (record runs)
    stage          \* where a record run is

vars == <<source, chunk_size, start, bookmarks, requests, error, file, pc,
          bookmark_obj, bookmark, row, stage>>

fetch_vars == <<source, chunk_size, start, bookmarks, requests, file, pc>>

record_vars == <<bookmark_obj, bookmark, row, stage>>

-----------------------------------------------------------------------------
(* Bounds of the model. *)

MaxRecords == 4

MaxChunk == 3

MaxTagsLen == 3

MaxTags == 3

MaxAnnotations == 3

MaxComments == 2

-----------------------------------------------------------------------------
(* Program constants. *)

CHUNK_SIZE == 100

HTTP_OK == 200

RAINDROP_IO_FIELDNAMES == <<"url", "folder", "title", "note", "tags", "created">>

-----------------------------------------------------------------------------
(* Python str and list primitives. *)

Min(a, b) == IF a < b THEN a ELSE b

\* c in s, for a one-character c
Contains(s, c) == \E i \in 1..Len(s) : s[i] = c

\* s.find(c) as a 1-based index, for a c that occurs in s
IndexOf(s, c) == CHOOSE i \in 1..Len(s) : s[i] = c /\ \A j \in 1..(i - 1) : s[j] # c

RECURSIVE Split(_, _)
\* s.split(sep), for a one-character sep
Split(s, sep) ==
    IF ~Contains(s, sep) THEN <<s>>
    ELSE LET i == IndexOf(s, sep)
         IN  <<SubSeq(s, 1, i - 1)>> \o Split(SubSeq(s, i + 1, Len(s)), sep)

RECURSIVE Join(_, _)
\* sep.join(parts)
Join(sep, parts) ==
    IF parts = <<>> THEN <<>>
    ELSE IF Len(parts) = 1 THEN parts[1]
    ELSE parts[1] \o sep \o Join(sep, Tail(parts))

RECURSIVE Replace(_, _, _)
\* s.replace(old, new): leftmost non-overlapping occurrences, old non-empty
Replace(s, old, new) ==
    IF Len(s) < Len(old) THEN s
    ELSE IF SubSeq(s, 1, Len(old)) = old
         THEN new \o Replace(SubSeq(s, Len(old) + 1, Len(s)), old, new)
         ELSE <<Head(s)>> \o Replace(Tail(s), old, new)

\* d.get(k, default) on an insertion-ordered dict
DictGet(d, k, default) ==
    IF \E i \in 1..Len(d) : d[i].key = k
    THEN d[CHOOSE i \in 1..Len(d) : d[i].key = k].value
    ELSE default

\* d[k] = v: an existing key keeps its position, a new key goes last
DictSet(d, k, v) ==
    IF \E i \in 1..Len(d) : d[i].key = k
    THEN [i \in 1..Len(d) |-> IF d[i].key = k THEN [key |-> k, value |-> v] ELSE d[i]]
    ELSE Append(d, [key |-> k, value |-> v])

-----------------------------------------------------------------------------
(* datetime.strptime with DIIGO_DATETIME_FORMAT, and datetime.isoformat.   *)
(* A raw created_at is the fields the format's directives read, as         *)
(* numbers, and the sign of %z.                                            *)

IsLeap(y) == (y % 4 = 0 /\ y % 100 # 0) \/ y % 400 = 0

DaysInMonth(y, m) ==
    IF m = 2 THEN (IF IsLeap(y) THEN 29 ELSE 28)
    ELSE IF m \in {4, 6, 9, 11} THEN 30 ELSE 31

\* whether strptime accepts the value (it raises ValueError otherwise)
DatetimeParses(c) ==
    /\ c.Y \in 1..9999
    /\ c.m \in 1..12
    /\ c.d \in 1..DaysInMonth(c.Y, c.m)
    /\ c.H \in 0..23
    /\ c.M \in 0..59
    /\ c.S \in 0..59
    /\ c.zsign \in {"+", "-"}
    /\ c.zh \in 0..23
    /\ c.zm \in 0..59

\* the aware datetime strptime returns; utcoffset in minutes
Strptime(c) ==
    [year |-> c.Y, month |-> c.m, day |-> c.d, hour |-> c.H, minute |-> c.M,
     second |-> c.S,
     utcoffset |-> (IF c.zsign = "-" THEN -1 ELSE 1) * (c.zh * 60 + c.zm)]

Digit(n) == <<"0", "1", "2", "3", "4", "5", "6", "7", "8", "9">>[n + 1]

Pad2(n) == <<Digit(n \div 10), Digit(n % 10)>>

Pad4(n) == Pad2(n \div 100) \o Pad2(n % 100)

Abs(n) == IF n < 0 THEN -n ELSE n

\* datetime.isoformat() of an aware datetime with zero microseconds
Isoformat(dt) ==
    Pad4(dt.year) \o <<"-">> \o Pad2(dt.month) \o <<"-">> \o Pad2(dt.day)
    \o <<"T">> \o Pad2(dt.hour) \o <<":">> \o Pad2(dt.minute) \o <<":">>
    \o Pad2(dt.second)
    \o <<IF dt.utcoffset < 0 THEN "-" ELSE "+">>
    \o Pad2(Abs(dt.utcoffset) \div 60) \o <<":">> \o Pad2(Abs(dt.utcoffset) % 60)

-----------------------------------------------------------------------------
(* Bookmark.to_raindrop_io_csv_row *)

ANNOTATIONS_HEADER ==
    <<"\n", "\n", "A", "n", "n", "o", "t", "a", "t", "i", "o", "n", "s", ":">>

\* Folder with the private segment appended before the read-later segment
FolderPrivateFirst(read_later, private) ==
    LET base == "Diigo Import"
        f1   == IF private THEN base \o "/Private" ELSE base
    IN  IF read_later THEN f1 \o "/Read Later" ELSE f1

\* lines 42-46
Folder(read_later, private) ==
    LET base == "Diigo Import"
        f1   == IF read_later THEN base \o "/Read Later" ELSE base
    IN  IF private THEN f1 \o "/Private" ELSE f1

\* TagsField quoting a single tag as well
TagsFieldQuotesOne(tags) ==
    IF Len(tags) >= 1
    THEN <<"\"">> \o Join(<<",", " ">>, tags) \o <<"\"">>
    ELSE <<>>

\* lines 47-52
TagsField(tags) ==
    IF Len(tags) = 1 THEN tags[1]
    ELSE IF Len(tags) > 1
         THEN <<"\"">> \o Join(<<",", " ">>, tags) \o <<"\"">>
         ELSE <<>>

\* line 57
Quoted(annotation) == <<">">> \o Replace(annotation, <<"\n", "\n">>, <<"\n", ">", " ", "\n">>)

\* NoteComments emitting the quoted annotation once for all its comments
NoteCommentsQuoteOnce(note, quoted, comments) ==
    IF comments = <<>> THEN note
    ELSE note \o <<"\n", " ">> \o quoted \o <<"\n", "\n">>
              \o Join(<<"\n">>, comments) \o <<"\n">>

RECURSIVE NoteComments(_, _, _)
\* lines 58-59: the inner loop over one annotation's comments
NoteComments(note, quoted, comments) ==
    IF comments = <<>> THEN note
    ELSE NoteComments(note \o <<"\n", " ">> \o quoted \o <<"\n", "\n">>
                           \o Head(comments) \o <<"\n">>,
                      quoted, Tail(comments))

RECURSIVE NoteAnnotations(_, _)
\* lines 56-59: the loop over annotations.items()
NoteAnnotations(note, items) ==
    IF items = <<>> THEN note
    ELSE NoteAnnotations(NoteComments(note, Quoted(Head(items).key), Head(items).value),
                         Tail(items))

\* Note appending the header only when some annotation has a comment
NoteHeaderOnlyWithComments(description, annotations) ==
    IF \E i \in 1..Len(annotations) : annotations[i].value # <<>>
    THEN NoteAnnotations(description \o ANNOTATIONS_HEADER, annotations)
    ELSE description

\* lines 53-59
Note(description, annotations) ==
    IF annotations # <<>>
    THEN NoteAnnotations(description \o ANNOTATIONS_HEADER, annotations)
    ELSE description

\* lines 41-67
to_raindrop_io_csv_row(b) ==
    [url     |-> b.url,
     folder  |-> Folder(b.read_later, b.private),
     title   |-> b.title,
     note    |-> Note(b.description, b.annotations),
     tags    |-> TagsField(b.tags),
     created |-> Isoformat(b.created_at)]

-----------------------------------------------------------------------------
(* get_bookmarks: decoding one raw object, then a whole response. *)

NoError == [kind |-> "none"]

\* ApiException(status_code, text)
ApiException(status_code, text) ==
    [kind |-> "ApiException", status_code |-> status_code, text |-> text]

\* line 105
ParseTags(raw_tags) == Split(raw_tags, ",")

\* line 112
CommentContents(comment_objs) == [i \in 1..Len(comment_objs) |-> comment_objs[i].content]

RECURSIVE BuildAnnotationsOverwrite(_, _)
\* BuildAnnotations dropping the comments already stored under the key
BuildAnnotationsOverwrite(annotations, annotation_objs) ==
    IF annotation_objs = <<>> THEN annotations
    ELSE BuildAnnotationsOverwrite(
             DictSet(annotations, Head(annotation_objs).content,
                     CommentContents(Head(annotation_objs).comments)),
             Tail(annotation_objs))

RECURSIVE BuildAnnotations(_, _)
\* lines 108-113: the loop over bookmark_obj['annotations'], from the dict so far
BuildAnnotations(annotations, annotation_objs) ==
    IF annotation_objs = <<>> THEN annotations
    ELSE LET annotation_obj    == Head(annotation_objs)
             annotation        == annotation_obj.content
             existing_comments == DictGet(annotations, annotation, <<>>)
             comments          == CommentContents(annotation_obj.comments)
         IN  BuildAnnotations(DictSet(annotations, annotation, existing_comments \o comments),
                              Tail(annotation_objs))

\* AssertsPass without the readlater check
AssertsPassNoReadlater(obj) ==
    /\ obj.comments = <<>>
    /\ ~Contains(obj.tags, "\"")
    /\ obj.shared \in {"yes", "no"}

\* lines 97-100: the four assert statements, as executed (python without -O)
AssertsPass(obj) ==
    /\ obj.comments = <<>>
    /\ ~Contains(obj.tags, "\"")
    /\ obj.shared \in {"yes", "no"}
    /\ obj.readlater \in {"yes", "no"}

\* lines 97-122: one iteration of the loop over the response
DecodeBookmark(obj) ==
    IF ~AssertsPass(obj)
    THEN [ok |-> FALSE, error |-> [kind |-> "AssertionError", args |-> obj]]
    ELSE IF ~DatetimeParses(obj.created_at)
    THEN [ok |-> FALSE, error |-> [kind |-> "ValueError", args |-> obj.created_at]]
    ELSE [ok |-> TRUE,
          bookmark |->
            [url         |-> obj.url,
             tags        |-> ParseTags(obj.tags),
             title       |-> obj.title,
             description |-> obj.desc,
             read_later  |-> obj.readlater = "yes",
             private     |-> obj.shared = "no",
             created_at  |-> Strptime(obj.created_at),
             annotations |-> BuildAnnotations(<<>>, obj.annotations)]]

\* lines 95-123: the loop; the first object that fails raises
DecodeAll(response) ==
    LET rs == [i \in 1..Len(response) |-> DecodeBookmark(response[i])]
    IN  IF \E i \in 1..Len(rs) : ~rs[i].ok
        THEN rs[CHOOSE i \in 1..Len(rs) : ~rs[i].ok /\ \A j \in 1..(i - 1) : rs[j].ok]
        ELSE [ok |-> TRUE, bookmarks |-> [i \in 1..Len(rs) |-> rs[i].bookmark]]

\* api_request returning the body whatever the status
api_request_never_raises(status_code, json, text) == [ok |-> TRUE, json |-> json]

\* lines 75-84: api_request on the server's answer
api_request(status_code, json, text) ==
    IF status_code = HTTP_OK THEN [ok |-> TRUE, json |-> json]
    ELSE [ok |-> FALSE, error |-> ApiException(status_code, text)]

\* lines 87-123: get_bookmarks on the server's answer to its request
get_bookmarks(status_code, json, text) ==
    LET response == api_request(status_code, json, text)
    IN  IF response.ok THEN DecodeAll(response.json) ELSE response

-----------------------------------------------------------------------------
(* The inputs: raw objects as the API returns them, and Bookmarks. *)

\* all sequences over S of length 0..n
SeqsUpTo(S, n) == UNION {[1..k -> S] : k \in 0..n}

\* 2024/11/14 05:48:28 +0000, the example of line 16
GoodDate == [Y |-> 2024, m |-> 11, d |-> 14, H |-> 5, M |-> 48, S |-> 28,
             zsign |-> "+", zh |-> 0, zm |-> 0]

\* 2023/12/31 23:59:07 -0530
OtherDate == [Y |-> 2023, m |-> 12, d |-> 31, H |-> 23, M |-> 59, S |-> 7,
              zsign |-> "-", zh |-> 5, zm |-> 30]

\* 2023/02/29 00:00:00 +0000: no such day, strptime raises ValueError
BadDate == [Y |-> 2023, m |-> 2, d |-> 29, H |-> 0, M |-> 0, S |-> 0,
            zsign |-> "+", zh |-> 0, zm |-> 0]

\* one object of the JSON array the bookmarks endpoint returns
RawObject(url, desc, tags, shared, readlater, comments, annotations, created_at) ==
    [url |-> url, title |-> "title of " \o url, desc |-> desc, tags |-> tags,
     shared |-> shared, readlater |-> readlater, comments |-> comments,
     annotations |-> annotations, created_at |-> created_at]

\* a bookmark-level comment object
BookmarkComment == [content |-> <<"n">>]

\* the objects a source collection of a fetch run is made of
FetchObjects ==
    { RawObject("u1", <<"d">>, <<"a", ",", "b">>, "yes", "no", <<>>, <<>>, GoodDate),
      RawObject("u2", <<>>, <<"a">>, "no", "yes", <<>>,
                <<[content |-> <<"x">>, comments |-> <<[content |-> <<"c">>]>>]>>,
                OtherDate),
      RawObject("u3", <<>>, <<"a">>, "yes", "no", <<BookmarkComment>>, <<>>, GoodDate),
      RawObject("u4", <<>>, <<"a", "\"">>, "yes", "no", <<>>, <<>>, GoodDate),
      RawObject("u5", <<>>, <<"a">>, "true", "no", <<>>, <<>>, GoodDate),
      RawObject("u6", <<>>, <<"a">>, "yes", "", <<>>, <<>>, GoodDate),
      RawObject("u7", <<>>, <<"a">>, "yes", "no", <<>>, <<>>, BadDate) }

\* the i-th object of a long collection of valid objects, all distinct
NumberedObject(i) ==
    RawObject("u" \o ToString(i), <<>>, <<"a">>,
              IF i % 2 = 0 THEN "yes" ELSE "no", IF i % 3 = 0 THEN "yes" ELSE "no",
              <<>>, <<>>, GoodDate)

\* collections of one full page, one more than a page, and two full pages
LongSources ==
    {[i \in 1..n |-> NumberedObject(i)] : n \in {CHUNK_SIZE, CHUNK_SIZE + 1, 2 * CHUNK_SIZE}}

Sources == SeqsUpTo(FetchObjects, MaxRecords) \cup LongSources

\* the values of CHUNK_SIZE the loop is run with: the program's 100, and the
\* small page sizes that put several pages within the bounded collections
PageSizes == (1..MaxChunk) \cup {CHUNK_SIZE}

\* the statuses the server answers with, and the bodies of its error answers
Statuses == {HTTP_OK, 204, 401, 500}

ErrorBodies == {"", "Unauthorized"}

TagAlphabet == {"a", "b", ",", "\""}

RawTagStrings == SeqsUpTo(TagAlphabet, MaxTagsLen)

AnnotationTexts == {<<"x">>, <<"y">>, <<"x", "\n", "\n", "y">>}

Descriptions == {<<>>, <<"d">>}

\* the j-th comment of the i-th annotation object: every comment is distinct
CommentText(i, j) == <<"c", Digit(i), Digit(j)>>

\* lists of annotation objects, as bookmark_obj['annotations']
AnnotationLists ==
    UNION { { [i \in 1..n |->
                 [content  |-> t[i],
                  comments |-> [j \in 1..k[i] |-> [content |-> CommentText(i, j)]]]]
              : t \in [1..n -> AnnotationTexts], k \in [1..n -> 0..MaxComments] }
            : n \in 0..MaxAnnotations }

\* the raw objects of a record run
RawObjects ==
    { RawObject("u", <<"d">>, t, "yes", "no", <<>>, <<>>, GoodDate) : t \in RawTagStrings }
    \cup
    { RawObject("u", <<"d">>, <<"a">>, sh, rl, cs, <<>>, dt) :
        sh \in {"yes", "no", "YES"}, rl \in {"yes", "no", "1"},
        cs \in {<<>>, <<BookmarkComment>>}, dt \in {GoodDate, OtherDate, BadDate} }
    \cup
    { RawObject("u", ds, <<"a">>, "yes", "no", <<>>, as, GoodDate) :
        ds \in Descriptions, as \in AnnotationLists }

TagValues == {<<>>, <<"a">>, <<"b", "c">>}

\* annotation dicts: distinct keys, in any order
AnnotationDicts ==
    UNION { { [i \in 1..n |->
                 [key   |-> t[i],
                  value |-> [j \in 1..k[i] |-> CommentText(i, j)]]]
              : t \in {f \in [1..n -> AnnotationTexts] :
                         \A a, b \in 1..n : f[a] = f[b] => a = b},
                k \in [1..n -> 0..MaxComments] }
            : n \in 0..MaxAnnotations }

\* the dataclass constructor
Bookmark(url, title, description, tags, created_at, read_later, private, annotations) ==
    [url |-> url, title |-> title, description |-> description, tags |-> tags,
     created_at |-> created_at, read_later |-> read_later, private |-> private,
     annotations |-> annotations]

\* the Bookmarks a record run constructs directly
Bookmarks ==
    { Bookmark("u", "t", <<"d">>, ts, Strptime(GoodDate), rl, pr, <<>>) :
        ts \in SeqsUpTo(TagValues, MaxTags), rl \in BOOLEAN, pr \in BOOLEAN }
    \cup
    { Bookmark("u", "t", ds, <<<<"a">>>>, Strptime(OtherDate), FALSE, FALSE, as) :
        ds \in Descriptions, as \in AnnotationDicts }

NoObject == [none |-> TRUE]

NoFile == [opened |-> FALSE, header |-> <<>>, rows |-> <<>>]

-----------------------------------------------------------------------------
(* main: the fetch loop and the save. *)

\* the endpoint's answer to (start, count): the objects at [start, start+count)
ServerPage(src, s, count) == SubSeq(src, s + 1, Min(s + count, Len(src)))

\* line 139
LoopBreaks(chunk_bookmarks) == chunk_bookmarks = <<>>

\* Extend putting the new page in front
ExtendFront(acc, chunk_bookmarks) == chunk_bookmarks \o acc

\* line 141
Extend(acc, chunk_bookmarks) == acc \o chunk_bookmarks

\* NextStart skipping one record between pages
NextStartSkipsOne(s, count) == s + count + 1

\* line 142
NextStart(s, count) == s + count

\* line 149
Rows(bs) == [i \in 1..Len(bs) |-> to_raindrop_io_csv_row(bs[i])]

Init ==
    /\ source \in Sources
    /\ chunk_size \in PageSizes
    /\ start = 0
    /\ bookmarks = <<>>
    /\ requests = <<>>
    /\ error = NoError
    /\ file = NoFile
    /\ pc = "loop"
    /\ bookmark_obj = NoObject
    /\ bookmark = NoObject
    /\ row = NoObject
    /\ stage = "idle"

\* the bodies the server can send with a status
Bodies(status_code) == IF status_code = HTTP_OK THEN {""} ELSE ErrorBodies

\* the request of one loop iteration with the answer it got
Issued(status_code, text) ==
    Append(requests, [start |-> start, count |-> chunk_size,
                      status_code |-> status_code, text |-> text])

\* line 138: get_bookmarks(start, CHUNK_SIZE) when the server answers with the status
Answered(status_code, text) ==
    get_bookmarks(status_code,
                  IF status_code = HTTP_OK THEN ServerPage(source, start, chunk_size)
                  ELSE <<>>,
                  text)

\* lines 138, 80-84: the answer has a non-200 status and the call raises
RequestFails ==
    /\ pc = "loop"
    /\ \E status_code \in Statuses \ {HTTP_OK} : \E text \in Bodies(status_code) :
         LET r == Answered(status_code, text)
         IN  /\ ~r.ok
             /\ error' = r.error
             /\ requests' = Issued(status_code, text)
             /\ pc' = "failed"
    /\ UNCHANGED <<source, chunk_size, start, bookmarks, file>>
    /\ UNCHANGED record_vars

\* lines 138, 96-101: an object of the page fails an assert or strptime
DecodeFails ==
    /\ pc = "loop"
    /\ LET r == Answered(HTTP_OK, "")
       IN  /\ ~r.ok
           /\ error' = r.error
           /\ requests' = Issued(HTTP_OK, "")
           /\ pc' = "failed"
    /\ UNCHANGED <<source, chunk_size, start, bookmarks, file>>
    /\ UNCHANGED record_vars

\* lines 138-142: the call returns a page of bookmarks, which is appended
NextChunk ==
    /\ pc = "loop"
    /\ \E status_code \in Statuses : \E text \in Bodies(status_code) :
         LET r == Answered(status_code, text)
         IN  /\ r.ok
             /\ ~LoopBreaks(r.bookmarks)
             /\ bookmarks' = Extend(bookmarks, r.bookmarks)
             /\ start' = NextStart(start, chunk_size)
             /\ requests' = Issued(status_code, text)
    /\ UNCHANGED <<source, chunk_size, error, file, pc>>
    /\ UNCHANGED record_vars

\* lines 138-140: the call returns no bookmarks, the loop ends
LastChunk ==
    /\ pc = "loop"
    /\ \E status_code \in Statuses : \E text \in Bodies(status_code) :
         LET r == Answered(status_code, text)
         IN  /\ r.ok
             /\ LoopBreaks(r.bookmarks)
             /\ requests' = Issued(status_code, text)
             /\ pc' = "save"
    /\ UNCHANGED <<source, chunk_size, start, bookmarks, error, file>>
    /\ UNCHANGED record_vars

\* line 146
OpenFile ==
    /\ pc = "save"
    /\ file' = [opened |-> TRUE, header |-> <<>>, rows |-> <<>>]
    /\ pc' = "header"
    /\ UNCHANGED <<source, chunk_size, start, bookmarks, requests, error>>
    /\ UNCHANGED record_vars

\* lines 147-148
WriteHeader ==
    /\ pc = "header"
    /\ file' = [file EXCEPT !.header = RAINDROP_IO_FIELDNAMES]
    /\ pc' = "rows"
    /\ UNCHANGED <<source, chunk_size, start, bookmarks, requests, error>>
    /\ UNCHANGED record_vars

\* lines 149-150
WriteRows ==
    /\ pc = "rows"
    /\ file' = [file EXCEPT !.rows = file.rows \o Rows(bookmarks)]
    /\ pc' = "done"
    /\ UNCHANGED <<source, chunk_size, start, bookmarks, requests, error>>
    /\ UNCHANGED record_vars

Next ==
    \/ RequestFails
    \/ DecodeFails
    \/ NextChunk
    \/ LastChunk
    \/ OpenFile
    \/ WriteHeader
    \/ WriteRows

Spec == Init /\ [][Next]_vars

-----------------------------------------------------------------------------
(* Record runs: one raw object decoded, one Bookmark rendered. *)

InitRecord ==
    /\ source = <<>>
    /\ chunk_size = CHUNK_SIZE
    /\ start = 0
    /\ bookmarks = <<>>
    /\ requests = <<>>
    /\ error = NoError
    /\ file = NoFile
    /\ pc = "idle"
    /\ row = NoObject
    /\ \/ /\ stage = "raw"
          /\ bookmark_obj \in RawObjects
          /\ bookmark = NoObject
       \/ /\ stage = "bookmark"
          /\ bookmark_obj = NoObject
          /\ bookmark \in Bookmarks

\* get_bookmarks on a response of the one object
DecodeRecord ==
    /\ stage = "raw"
    /\ LET r == get_bookmarks(HTTP_OK, <<bookmark_obj>>, "")
       IN  IF r.ok
           THEN /\ bookmark' = r.bookmarks[1]
                /\ stage' = "bookmark"
                /\ error' = error
           ELSE /\ bookmark' = bookmark
                /\ stage' = "rejected"
                /\ error' = r.error
    /\ UNCHANGED <<bookmark_obj, row>>
    /\ UNCHANGED fetch_vars

\* to_raindrop_io_csv_row on the Bookmark
RenderRow ==
    /\ stage = "bookmark"
    /\ row' = to_raindrop_io_csv_row(bookmark)
    /\ stage' = "row"
    /\ UNCHANGED <<bookmark_obj, bookmark, error>>
    /\ UNCHANGED fetch_vars

NextRecord ==
    \/ DecodeRecord
    \/ RenderRow

SpecRecord == InitRecord /\ [][NextRecord]_vars

-----------------------------------------------------------------------------
(* Properties of the fetch loop (Spec). *)

\* main has left the loop by its break
LoopEnded == pc \in {"save", "header", "rows", "done"}

\* ceil(a / b)
Ceil(a, b) == (a + b - 1) \div b

\* the records of the source that the request r covers
Covered(r) == (r.start + 1)..Min(r.start + r.count, Len(source))

\* C1: when every request is answered with the records at [start, start+count),
\* the loop ends with the accumulator holding exactly the N records of the
\* source, each once and in source order.
C1_AllRecordsInSourceOrder ==
    LoopEnded =>
        /\ Len(bookmarks) = Len(source)
        /\ \A i \in 1..Len(source) :
             /\ bookmarks[i].url = source[i].url
             /\ bookmarks[i] = DecodeBookmark(source[i]).bookmark

C1_Witness ==
    /\ pc = "save"
    /\ Len(requests) >= 3
    /\ Len(source) >= 2
    /\ source[1] # source[2]
    /\ Len(bookmarks) = Len(source)

\* C2 as stated: the loop issues exactly ceil((N+1)/P) requests.
C2_CeilNPlusOneOverP ==
    LoopEnded => Len(requests) = Ceil(Len(source) + 1, chunk_size)

\* C2 as amended: the loop issues exactly ceil(N/P) + 1 requests, at starts
\* 0, P, 2P, ...; the last one is the only one answered with an empty page,
\* so no request follows the first empty page; N = P = 100 gives 2 requests.
C2_RequestCount ==
    /\ \A i \in 1..Len(requests) :
         /\ requests[i].start = (i - 1) * chunk_size
         /\ requests[i].count = chunk_size
         /\ i < Len(requests) => Covered(requests[i]) # {}
    /\ LoopEnded =>
         /\ Len(requests) = Ceil(Len(source), chunk_size) + 1
         /\ Covered(requests[Len(requests)]) = {}
         /\ (Len(source) = 100 /\ chunk_size = 100) => Len(requests) = 2

C2_Witness ==
    /\ pc = "save"
    /\ Len(source) % chunk_size # 0
    /\ Len(requests) = 3
    /\ Len(requests) # Ceil(Len(source) + 1, chunk_size)

\* C3: a request answered with a non-success status is the last request of
\* the run and was issued once; the run has failed with an ApiException that
\* carries the status and the body; the export file is never opened, so no
\* header and no row of the pages fetched before is written.
C3_ApiErrorAborts ==
    \A i \in 1..Len(requests) :
        requests[i].status_code # 200 =>
            /\ i = Len(requests)
            /\ \A j \in 1..Len(requests) : requests[j].start = requests[i].start => j = i
            /\ pc = "failed"
            /\ error = [kind |-> "ApiException",
                        status_code |-> requests[i].status_code,
                        text |-> requests[i].text]
            /\ file = NoFile

C3_Witness ==
    /\ pc = "failed"
    /\ error.kind = "ApiException"
    /\ error.status_code = 500
    /\ Len(requests) >= 3
    /\ bookmarks # <<>>
    /\ file = NoFile

\* an object that breaks one of the decode invariants
BreaksDecodeInvariant(obj) ==
    \/ obj.comments # <<>>
    \/ obj.shared # "yes" /\ obj.shared # "no"
    \/ obj.readlater # "yes" /\ obj.readlater # "no"
    \/ \E k \in 1..Len(obj.tags) : obj.tags[k] = "\""

\* C4: once a page with an object that breaks a decode invariant has been
\* fetched, the run has failed with a validation error and the export file
\* has no header and no rows, whatever pages and objects decoded before.
C4_InvalidRecordAborts ==
    \A i \in 1..Len(requests) :
        (/\ requests[i].status_code = 200
         /\ \E k \in Covered(requests[i]) : BreaksDecodeInvariant(source[k])) =>
            /\ pc = "failed"
            /\ error.kind \in {"AssertionError", "ValueError"}
            /\ error.kind = "AssertionError" => BreaksDecodeInvariant(error.args)
            /\ file = NoFile
            /\ file.rows = <<>>

C4_Witness ==
    /\ pc = "failed"
    /\ error.kind = "AssertionError"
    /\ bookmarks # <<>>
    /\ Len(requests) >= 2
    /\ \E k \in Covered(requests[Len(requests)]) :
         /\ k > requests[Len(requests)].start + 1
         /\ BreaksDecodeInvariant(source[k])
         /\ \A j \in 1..(k - 1) : ~BreaksDecodeInvariant(source[j])

-----------------------------------------------------------------------------
(* Properties of decoding and rendering (SpecRecord). *)

\* the Bookmark of this run came out of get_bookmarks
Decoded == stage \in {"bookmark", "row"} /\ bookmark_obj # NoObject

\* the number of places where sub occurs in s
Occurrences(s, sub) ==
    Cardinality({i \in 1..(Len(s) - Len(sub) + 1) : SubSeq(s, i, i + Len(sub) - 1) = sub})

\* the text "Annotations:" of the header
HeaderText == <<"A", "n", "n", "o", "t", "a", "t", "i", "o", "n", "s", ":">>

\* the start of a block: newline, space, quote marker
BlockStart == <<"\n", " ", ">">>

\* C5: the folder is one of four values fixed by the two flags, the
\* read-later segment before the private segment.
C5_FolderByFlags ==
    stage = "row" =>
        /\ (~bookmark.read_later /\ ~bookmark.private) => row.folder = "Diigo Import"
        /\ (bookmark.read_later /\ ~bookmark.private) => row.folder = "Diigo Import/Read Later"
        /\ (~bookmark.read_later /\ bookmark.private) => row.folder = "Diigo Import/Private"
        /\ (bookmark.read_later /\ bookmark.private) =>
               row.folder = "Diigo Import/Read Later/Private"

C5_Witness ==
    /\ stage = "row"
    /\ bookmark.read_later
    /\ bookmark.private
    /\ row.folder = "Diigo Import/Read Later/Private"

RECURSIVE JoinedLeft(_, _)
\* the tags after acc, each preceded by comma and space
JoinedLeft(acc, tags) ==
    IF tags = <<>> THEN acc
    ELSE JoinedLeft(acc \o <<",", " ">> \o Head(tags), Tail(tags))

\* C6: the tags field is empty for no tags, the tag itself for one tag, and
\* for two or more the tags joined with ", " inside one pair of double quotes.
C6_TagsField ==
    stage = "row" =>
        /\ Len(bookmark.tags) = 0 => row.tags = <<>>
        /\ Len(bookmark.tags) = 1 => row.tags = bookmark.tags[1]
        /\ Len(bookmark.tags) >= 2 =>
             /\ row.tags = <<"\"">> \o JoinedLeft(bookmark.tags[1], Tail(bookmark.tags))
                           \o <<"\"">>
             /\ Occurrences(row.tags, <<"\"">>) = 2
        /\ bookmark.tags = << <<"a">>, <<"b", "c">> >> =>
             row.tags = <<"\"", "a", ",", " ", "b", "c", "\"">>

C6_Witness ==
    /\ stage = "row"
    /\ bookmark.tags = << <<"a">>, <<"b", "c">> >>
    /\ row.tags = <<"\"", "a", ",", " ", "b", "c", "\"">>

\* the (annotation, comment) pairs of a dict, in dict order then list order
Pairs(annotations) ==
    LET n == Len(annotations)
        before(i) == LET f[k \in 0..n] ==
                            IF k = 0 THEN 0 ELSE f[k - 1] + Len(annotations[k].value)
                     IN  f[i]
    IN  [p \in 1..before(n) |->
           LET i == CHOOSE i \in 1..n : before(i - 1) < p /\ p <= before(i)
           IN  [annotation |-> annotations[i].key,
                comment    |-> annotations[i].value[p - before(i - 1)]]]

\* the block of one pair: the quoted annotation, a blank line, the comment
Block(pair) ==
    <<"\n", " ">> \o Quoted(pair.annotation) \o <<"\n", "\n">> \o pair.comment \o <<"\n">>

\* the blocks of the pairs p..Len(pairs), one after the other
BlocksFrom(pairs, p) ==
    LET f[k \in 1..(Len(pairs) + 1)] ==
            IF k > Len(pairs) THEN <<>> ELSE Block(pairs[k]) \o f[k + 1]
    IN  f[p]

\* C7: the note is the description when there are no annotations; otherwise
\* it is the description, the header once, and one block per (annotation,
\* comment) pair in dict order then list order, each with the full quoted
\* annotation; one annotation with two comments has the header once and the
\* quoted annotation twice.
C7_NoteStructure ==
    stage = "row" =>
        /\ bookmark.annotations = <<>> => row.note = bookmark.description
        /\ bookmark.annotations # <<>> =>
             /\ row.note = bookmark.description \o <<"\n", "\n">> \o HeaderText
                           \o BlocksFrom(Pairs(bookmark.annotations), 1)
             /\ Occurrences(row.note, HeaderText) = 1
        /\ (Len(bookmark.annotations) = 1 /\ Len(bookmark.annotations[1].value) = 2) =>
             Occurrences(row.note, Quoted(bookmark.annotations[1].key)) = 2

C7_Witness ==
    /\ stage = "row"
    /\ Len(bookmark.annotations) = 1
    /\ bookmark.annotations[1].key = <<"x", "\n", "\n", "y">>
    /\ Len(bookmark.annotations[1].value) = 2
    /\ Occurrences(row.note, <<">", "x", "\n", ">", " ", "\n", "y">>) = 2

RECURSIVE FirstSeen(_, _)
\* the distinct annotation texts of a list, in the order of their first occurrence
FirstSeen(seen, objs) ==
    IF objs = <<>> THEN seen
    ELSE IF \E i \in 1..Len(seen) : seen[i] = Head(objs).content
         THEN FirstSeen(seen, Tail(objs))
         ELSE FirstSeen(Append(seen, Head(objs).content), Tail(objs))

RECURSIVE CommentsOf(_, _)
\* the comments of every occurrence of an annotation text, in source order
CommentsOf(text, objs) ==
    IF objs = <<>> THEN <<>>
    ELSE (IF Head(objs).content = text
          THEN [j \in 1..Len(Head(objs).comments) |-> Head(objs).comments[j].content]
          ELSE <<>>)
         \o CommentsOf(text, Tail(objs))

\* C8: an annotation text that occurs more than once is one key of the
\* decoded dict; the keys are in first-seen order and each key's list is the
\* concatenation, in source order, of the comments of all its occurrences.
C8_DuplicateAnnotationsMerge ==
    Decoded =>
        LET objs == bookmark_obj.annotations
            keys == FirstSeen(<<>>, objs)
        IN  /\ Len(bookmark.annotations) = Len(keys)
            /\ \A i \in 1..Len(keys) :
                 /\ bookmark.annotations[i].key = keys[i]
                 /\ bookmark.annotations[i].value = CommentsOf(keys[i], objs)

C8_Witness ==
    /\ Decoded
    /\ Len(bookmark_obj.annotations) = 3
    /\ bookmark_obj.annotations[1].content = bookmark_obj.annotations[3].content
    /\ bookmark_obj.annotations[1].content # bookmark_obj.annotations[2].content
    /\ Len(bookmark.annotations) = 2
    /\ bookmark.annotations[1].value = <<CommentText(1, 1), CommentText(3, 1), CommentText(3, 2)>>

\* C9 as stated: every decoded Bookmark has only non-empty tags.
C9_TagsNonEmpty ==
    Decoded => \A i \in 1..Len(bookmark.tags) : bookmark.tags[i] # <<>>

\* the number of comments over all annotations
TotalComments(annotations) == Len(Pairs(annotations))

\* C10: the note has as many blocks as there are comments over all
\* annotations, the header exactly when the dict is non-empty, nothing of an
\* annotation without comments, and is the description and the header alone
\* when no annotation has a comment.
C10_EmptyCommentListsContributeNothing ==
    stage = "row" =>
        /\ Occurrences(row.note, BlockStart) = TotalComments(bookmark.annotations)
        /\ Occurrences(row.note, HeaderText) = (IF bookmark.annotations # <<>> THEN 1 ELSE 0)
        /\ (bookmark.annotations # <<>> /\ TotalComments(bookmark.annotations) = 0) =>
             row.note = bookmark.description \o <<"\n", "\n">> \o HeaderText
        /\ \A i \in 1..Len(bookmark.annotations) :
             (/\ bookmark.annotations[i].value = <<>>
              /\ \A j \in 1..Len(bookmark.annotations) :
                   (j # i /\ bookmark.annotations[j].value # <<>>) =>
                       Occurrences(Quoted(bookmark.annotations[j].key),
                                   Quoted(bookmark.annotations[i].key)) = 0) =>
                 Occurrences(row.note, Quoted(bookmark.annotations[i].key)) = 0

C10_Witness ==
    /\ Decoded
    /\ stage = "row"
    /\ Len(bookmark.annotations) = 2
    /\ bookmark.annotations[1].value = <<>>
    /\ bookmark.annotations[2].value # <<>>
    /\ Occurrences(row.note, Quoted(bookmark.annotations[1].key)) = 0
    /\ Occurrences(row.note, HeaderText) = 1

=============================================================================
